---- MODULE Spec2Model ----
(***************************************************************************)
(* A model of the three scripts of the repository:                         *)
(*   src/posts/kedro-index-partitioned-dataset.py   (entry "kedro")        *)
(*   src/posts/pydantic-and-nested-relationships.py (entry "orm")          *)
(*   src/live_reload.py                             (entry "live")         *)
(* and of the function filter_datasets applied to arbitrary bounded        *)
(* inputs (entry "filter").  One behaviour is one run of one entry point.  *)
(*                                                                         *)
(* Text that the code transforms or matches (names that are lower-cased,   *)
(* partition keys, file paths, glob patterns) is a sequence of one         *)
(* character strings; text that is only stored and printed is a string.    *)
(***************************************************************************)
EXTENDS Integers, Sequences, FiniteSets, TLC

VARIABLES
    entry,      \* the entry point this run executes
    pc,         \* the position of the running script
    exc,        \* the exception in flight, or NoExc
    stdout,     \* what the script has printed so far
    outAtFault, \* Len(stdout) when the exception was raised, -1 before
    \* ---- kedro-index-partitioned-dataset.py
    tmpdir,     \* "none" | "open" | "removed": the TemporaryDirectory
    files,      \* the partition files in the directory: key -> payload
    loaded_partitioned_dataset, \* the dict of line 26: a sequence of items
    idx,        \* the position of the for loop in its list of first names
    calls,      \* keys of the load functions invoked so far
    misuse,     \* a step used the directory or the session while not open
    \* ---- filter_datasets applied directly
    filterArg,  \* the filter argument
    ret,        \* the outcome of the call
    \* ---- pydantic-and-nested-relationships.py
    input,      \* the name and the comment texts the objects are built from
    session,    \* "none" | "open" | "closed"
    user,       \* the User object
    comments,   \* every Comment object constructed, in construction order
    pending,    \* objects in the session that are not yet flushed
    userRows,   \* table "user"
    commentRows,\* table "comment"
    bare_result,
    tweaked_result,
    \* ---- live_reload.py
    tasks,      \* the watches registered on the server, in order
    root,       \* the served directory, or NoRoot
    changed,    \* files modified since the watcher last looked at them
    nChanges,   \* file modifications made by the environment
    buildLog    \* the commands run by watches, each with the file behind it

vars == <<entry, pc, exc, stdout, outAtFault, tmpdir, files,
          loaded_partitioned_dataset, idx, calls, misuse, filterArg, ret, input, session, user, comments,
          pending, userRows, commentRows, bare_result, tweaked_result,
          tasks, root, changed, nChanges, buildLog>>

kedroVars == <<tmpdir, files, loaded_partitioned_dataset, idx, calls>>
filterVars == <<filterArg, ret>>
ormVars == <<input, session, user, comments, pending, userRows, commentRows,
             bare_result, tweaked_result>>
liveVars == <<tasks, root, changed, nChanges, buildLog>>

-----------------------------------------------------------------------------
(* Bounds of the model *)

\* the largest mapping filter_datasets is applied to
MaxParts == 2
\* the longest list of comments a user is built with
MaxComments == 2
\* the number of file modifications the environment makes in one run
MaxChanges == 2

-----------------------------------------------------------------------------
(* Text *)

NoExc == "NoExc"
None == "None"

UpperCase == <<"A","B","C","D","E","F","G","H","I","J","K","L","M",
               "N","O","P","Q","R","S","T","U","V","W","X","Y","Z">>
LowerCase == <<"a","b","c","d","e","f","g","h","i","j","k","l","m",
               "n","o","p","q","r","s","t","u","v","w","x","y","z">>

\* str.lower() of one character
LowerChar(c) ==
    IF \E i \in DOMAIN UpperCase : UpperCase[i] = c
    THEN LowerCase[CHOOSE i \in DOMAIN UpperCase : UpperCase[i] = c]
    ELSE c

\* str.lower()
Lower(s) == [i \in DOMAIN s |-> LowerChar(s[i])]

\* the sequences over S of length at most n
SeqUpTo(S, n) == UNION {[1..k -> S] : k \in 0..n}

\* the elements of a sequence
Range(s) == {s[i] : i \in DOMAIN s}

-----------------------------------------------------------------------------
(* filter_datasets (kedro-index-partitioned-dataset.py, lines 7-12) *)

\* a mapping from strings to values: {} is the mapping with no key
EmptyDict == << >>

\* dict.get(k): the value under k, None when k is not a key
Get(d, k) == IF k \in DOMAIN d THEN d[k] ELSE None

\* A loaded partitioned dataset is a sequence of items in the iteration order
\* of the dict, the keys pairwise different.  An item is
\* [key, payload, fails]: calling its load function returns payload, or
\* raises when fails.
Item(k, p, f) == [key |-> k, payload |-> p, fails |-> f]

DistinctKeys(items) ==
    \A i, j \in DOMAIN items : i # j => items[i].key # items[j].key

\* The outcome of a call is [kind, value, error, called]: kind is "return"
\* with the value returned or "raise" with the error raised; called lists
\* the keys of the load functions the call invoked.

\* a call of the load function whose error is caught and replaced by {}
CallLoaderSwallow(item) ==
    [kind |-> "return",
     value |-> IF item.fails THEN << >> ELSE item.payload,
     error |-> "NoExc",
     called |-> <<item.key>>]

\* partition_load_func(): the outcome of the call and the function called
CallLoader(item) ==
    IF item.fails
    THEN [kind |-> "raise", value |-> EmptyDict, error |-> "LoadError",
          called |-> <<item.key>>]
    ELSE [kind |-> "return", value |-> item.payload, error |-> NoExc,
          called |-> <<item.key>>]

\* line 9 compared without regard to case
KeyEqNoCase(key, filter) == Lower(key) = Lower(filter)

\* line 9: key == filter
KeyEq(key, filter) == key = filter

RECURSIVE FilterFrom(_, _, _)
\* lines 8-12 from the i-th item of the mapping on
FilterFrom(items, filter, i) ==
    IF i > Len(items)
    THEN [kind |-> "return", value |-> EmptyDict, error |-> NoExc,
          called |-> << >>]
    ELSE IF KeyEq(items[i].key, filter)
         THEN CallLoader(items[i])
         ELSE FilterFrom(items, filter, i + 1)

RECURSIVE LoadAllFrom(_, _)
\* every load function from the i-th on is called, in order
LoadAllFrom(items, i) ==
    IF i > Len(items) THEN << >>
    ELSE <<CallLoader(items[i])>> \o LoadAllFrom(items, i + 1)

\* filter_datasets written to load every partition and then pick one
filter_datasets_eager(items, filter) ==
    LET all == LoadAllFrom(items, 1)
        hit == {i \in DOMAIN items : KeyEq(items[i].key, filter)}
        bad == {i \in DOMAIN items : all[i].kind = "raise"}
        keys == [i \in DOMAIN items |-> items[i].key]
    IN  IF bad # {}
        THEN LET b == CHOOSE i \in bad : \A j \in bad : i <= j
             IN  [all[b] EXCEPT !.called = SubSeq(keys, 1, b)]
        ELSE IF hit # {}
             THEN [all[CHOOSE i \in hit : TRUE] EXCEPT !.called = keys]
             ELSE [kind |-> "return", value |-> EmptyDict, error |-> NoExc,
                   called |-> keys]

\* lines 7-12: filter_datasets(loaded_partitioned_dataset, filter)
filter_datasets(items, filter) == FilterFrom(items, filter, 1)

-----------------------------------------------------------------------------
(* The exception in flight *)

\* raise e, control going to handler
Raise(e, handler) ==
    /\ exc' = e
    /\ outAtFault' = Len(stdout)
    /\ pc' = handler

\* the statement completes and control goes to next
Goto(next) ==
    /\ pc' = next
    /\ UNCHANGED <<exc, outAtFault>>

\* how a with statement ends: normally, or with the exception in flight
AfterWith == IF exc = NoExc THEN "done" ELSE "failed"

-----------------------------------------------------------------------------
(* kedro-index-partitioned-dataset.py, lines 15-34 *)

Florian == <<"F","l","o","r","i","a","n">>
Julien == <<"J","u","l","i","e","n">>
Flavien == <<"F","l","a","v","i","e","n">>

\* the partitions of lines 19-23, in the order they are saved
Partitions ==
    << [key |-> Lower(Florian), payload |-> [is |-> "He is the boss!"]],
       [key |-> Lower(Flavien), payload |-> [is |-> "I am the boss...of JIRA!"]],
       [key |-> Lower(Julien),
        payload |-> [is |-> "He is my boss...Oh, wait, no it's Aymeric now!"]] >>

\* line 27: the list the for loop goes through
FirstNames == <<Florian, Julien, Flavien>>

\* line 32 without the call of lower()
LookupKeyAsGiven(first_name) == first_name

\* line 32: filter=first_name.lower()
LookupKey(first_name) == Lower(first_name)

\* an exception leaves the block with no with statement around it
KedroNoHandler == "failed"

\* line 15: an exception raised in the block runs the exit of the with
\* statement before it propagates
KedroHandler == "k_exit"

\* a step of the block uses the temporary directory
UsesTmpdir == misuse' = (misuse \/ tmpdir # "open")

\* line 15: tempfile.TemporaryDirectory().__enter__()
KedroEnter ==
    /\ entry = "kedro" /\ pc = "k_enter"
    /\ UNCHANGED entry
    /\ \/ /\ tmpdir' = "open"
          /\ Goto("k_new")
       \/ /\ Raise("OSError", "failed")
          /\ UNCHANGED tmpdir
    /\ UNCHANGED <<stdout, files, loaded_partitioned_dataset, idx, calls, misuse>>
    /\ UNCHANGED <<filterVars, ormVars, liveVars>>

\* lines 16-18: PartitionedDataSet(path=..., dataset="json.JSONDataSet")
KedroNew ==
    /\ entry = "kedro" /\ pc = "k_new"
    /\ UNCHANGED entry
    /\ \/ Goto("k_save")
       \/ Raise("DataSetError", KedroHandler)
    /\ UNCHANGED <<stdout, kedroVars, misuse>>
    /\ UNCHANGED <<filterVars, ormVars, liveVars>>

\* PartitionedDataSet.save: one file per key of the data, written beside the
\* files already there (overwrite is off)
SaveMerge(store, part) ==
    [k \in DOMAIN store \cup {part.key} |->
        IF k = part.key THEN part.payload ELSE store[k]]

\* lines 19-23: the three calls of partitioned_dataset.save, one per step
KedroSave ==
    /\ entry = "kedro" /\ pc = "k_save"
    /\ UNCHANGED entry
    /\ idx <= Len(Partitions)
    /\ UsesTmpdir
    /\ \/ /\ files' = SaveMerge(files, Partitions[idx])
          /\ idx' = IF idx = Len(Partitions) THEN 1 ELSE idx + 1
          /\ Goto(IF idx = Len(Partitions) THEN "k_release" ELSE "k_save")
       \/ /\ Raise("DataSetError", KedroHandler)
          /\ UNCHANGED <<files, idx>>
    /\ UNCHANGED <<stdout, tmpdir, loaded_partitioned_dataset, calls>>
    /\ UNCHANGED <<filterVars, ormVars, liveVars>>

\* line 25: partitioned_dataset.release()
KedroRelease ==
    /\ entry = "kedro" /\ pc = "k_release"
    /\ UNCHANGED entry
    /\ Goto("k_load")
    /\ UNCHANGED <<stdout, kedroVars, misuse>>
    /\ UNCHANGED <<filterVars, ormVars, liveVars>>

\* PartitionedDataSet.load: a dict with one load function per file found;
\* the order of the keys and the files that will fail to parse are the
\* environment's
LoadResults(store) ==
    {items \in [1..Cardinality(DOMAIN store) ->
                  {Item(k, store[k], f) : k \in DOMAIN store, f \in BOOLEAN}] :
        DistinctKeys(items)}

\* line 26: loaded_partitioned_dataset = partitioned_dataset.load()
KedroLoad ==
    /\ entry = "kedro" /\ pc = "k_load"
    /\ UNCHANGED entry
    /\ UsesTmpdir
    /\ \/ /\ files # EmptyDict
          /\ loaded_partitioned_dataset' \in LoadResults(files)
          /\ Goto("k_loop")
       \/ /\ Raise("DataSetError", KedroHandler)
          /\ UNCHANGED loaded_partitioned_dataset
    /\ UNCHANGED <<stdout, tmpdir, files, idx, calls>>
    /\ UNCHANGED <<filterVars, ormVars, liveVars>>

\* lines 27-34: one pass of the for loop: the lookup and the print
KedroLookup ==
    /\ entry = "kedro" /\ pc = "k_loop"
    /\ UNCHANGED entry
    /\ idx <= Len(FirstNames)
    /\ UsesTmpdir
    /\ LET first_name == FirstNames[idx]
           r == filter_datasets(loaded_partitioned_dataset, LookupKey(first_name))
       IN  /\ calls' = calls \o r.called
           /\ IF r.kind = "raise"
              THEN /\ Raise(r.error, KedroHandler)
                   /\ UNCHANGED <<stdout, idx>>
              ELSE /\ stdout' = Append(stdout,
                            [who |-> first_name, is |-> Get(r.value, "is")])
                   /\ idx' = idx + 1
                   /\ Goto(IF idx = Len(FirstNames) THEN "k_exit" ELSE "k_loop")
    /\ UNCHANGED <<tmpdir, files, loaded_partitioned_dataset>>
    /\ UNCHANGED <<filterVars, ormVars, liveVars>>

\* line 15: TemporaryDirectory.__exit__: the directory and what it holds are
\* removed, then the exception in flight, if any, goes on
KedroExit ==
    /\ entry = "kedro" /\ pc = "k_exit"
    /\ UNCHANGED entry
    /\ tmpdir' = "removed"
    /\ files' = EmptyDict
    /\ pc' = AfterWith
    /\ UNCHANGED <<exc, outAtFault, stdout, misuse>>
    /\ UNCHANGED <<loaded_partitioned_dataset, idx, calls>>
    /\ UNCHANGED <<filterVars, ormVars, liveVars>>

-----------------------------------------------------------------------------
(* filter_datasets called on any mapping and any filter *)

\* the keys, payloads and filters the function is applied to
HarnessKeys == {<<"a">>, <<"A">>, <<"b">>}
HarnessPayloads == {[is |-> "x"], [is |-> "y"]}
HarnessMappings ==
    {items \in SeqUpTo({Item(k, p, f) : k \in HarnessKeys,
                                        p \in HarnessPayloads,
                                        f \in BOOLEAN}, MaxParts) :
        DistinctKeys(items)}

NoRet == [kind |-> "none", value |-> EmptyDict, error |-> NoExc, called |-> << >>]

\* lines 7-12: one call of filter_datasets
CallFilter ==
    /\ entry = "filter" /\ pc = "f_call"
    /\ UNCHANGED entry
    /\ LET r == filter_datasets(loaded_partitioned_dataset, filterArg)
       IN  /\ ret' = r
           /\ calls' = calls \o r.called
           /\ IF r.kind = "raise" THEN Raise(r.error, "failed") ELSE Goto("done")
    /\ UNCHANGED <<stdout, tmpdir, files, loaded_partitioned_dataset, idx, misuse>>
    /\ UNCHANGED filterArg
    /\ UNCHANGED <<ormVars, liveVars>>

-----------------------------------------------------------------------------
(* pydantic-and-nested-relationships.py *)

\* lines 81-83: the name and the comment texts of the script
ScriptInput ==
    [name |-> "Alice", texts |-> <<"First comment.", "Second comment.">>]

\* the names and lists of comment texts the objects are built from
OrmInputs ==
    [name : {"Alice", "Bob"},
     texts : SeqUpTo({"First comment.", "Second comment."}, MaxComments)]

\* lines 22 and 30: an integer primary key that is not set yet (Python's None)
NoId == 0

NoUser == [id |-> NoId, name |-> None, comments |-> << >>]

\* lines 20-25: User(name=...): no id before the flush, no comment yet
UserNew(name) == [id |-> NoId, name |-> name, comments |-> << >>]

\* a Comment constructed without its user
CommentNewDetached(text, u) ==
    [id |-> NoId, comment |-> text, user_id |-> NoId, user |-> None]

\* lines 28-34 and 82-83: Comment(comment=..., user=user)
CommentNew(text, u) ==
    [id |-> NoId, comment |-> text, user_id |-> NoId, user |-> u]

\* line 25 and line 34: back_populates keeps user.comments in step with
\* comment.user: the comment at position i joins the list of its user
BackPopulate(u, c, i) ==
    IF c.user = "user" THEN [u EXCEPT !.comments = Append(@, i)] ELSE u

\* line 85 with line 25: session.add(user) puts the user in the session and,
\* by the relationship's default save-update cascade, every comment of
\* user.comments
AddCascade(u) == {<<"user", 0>>} \cup {<<"comment", u.comments[i]>> : i \in DOMAIN u.comments}

\* the next value of an integer primary key
NextId(rows) == Cardinality(Range(rows)) + 1

RECURSIVE FlushComments(_, _, _, _)
\* the INSERTs of the pending comments, in construction order: each gets the
\* next id and, from comment.user, the id of its user
FlushComments(cs, pend, uid, i) ==
    IF i > Len(cs) THEN cs
    ELSE IF <<"comment", i>> \in pend
         THEN LET n == Cardinality({j \in 1..(i - 1) : <<"comment", j>> \in pend}) + 1
                  c == [cs[i] EXCEPT !.id = n,
                            !.user_id = IF cs[i].user = "user" THEN uid ELSE NoId]
              IN  FlushComments([cs EXCEPT ![i] = c], pend, uid, i + 1)
         ELSE FlushComments(cs, pend, uid, i + 1)

\* the row of a flushed comment
CommentRow(c) == [id |-> c.id, comment |-> c.comment, user_id |-> c.user_id]

\* lines 37-43: CommentSerializer.from_orm(c).dict()
CommentSerializer(c) ==
    [id |-> c.id, comment |-> c.comment, user_id |-> c.user_id]

\* lines 46-53: CommentToStringSerializer.from_orm(c).dict():
\* super().dict(**kwargs).get("comment", "")
CommentToStringSerializer(c) ==
    LET d == [comment |-> c.comment]
    IN  IF "comment" \in DOMAIN d THEN d["comment"] ELSE ""

\* lines 56-62: UserSerializer.from_orm(u).dict()
UserSerializer(u, cs) ==
    [id |-> u.id, name |-> u.name,
     comments |-> [i \in DOMAIN u.comments |-> CommentSerializer(cs[u.comments[i]])]]

\* UserWithoutIDSerializer declared with the id of the user as well
UserWithIDSerializer(u, cs) ==
    [id |-> u.id, name |-> u.name,
     comments |-> [i \in DOMAIN u.comments |->
                      CommentToStringSerializer(cs[u.comments[i]])]]

\* lines 65-70: UserWithoutIDSerializer.from_orm(u).dict()
UserWithoutIDSerializer(u, cs) ==
    [name |-> u.name,
     comments |-> [i \in DOMAIN u.comments |->
                      CommentToStringSerializer(cs[u.comments[i]])]]

\* lines 38-40, 57-59: the fields declared int hold integers
ValidUser(u, cs) ==
    /\ u.id # NoId
    /\ \A i \in DOMAIN u.comments :
          cs[u.comments[i]].id # NoId /\ cs[u.comments[i]].user_id # NoId

\* line 79: an exception raised in the block runs the exit of the with
\* statement before it propagates
OrmHandler == "o_exit"

\* a step of the block uses the session
UsesSession == misuse' = (misuse \/ session # "open")

\* lines 75-77: create_engine, sessionmaker, create_all
OrmEngine ==
    /\ entry = "orm" /\ pc = "o_engine"
    /\ UNCHANGED entry
    /\ \/ Goto("o_session")
       \/ Raise("SQLAlchemyError", "failed")
    /\ UNCHANGED <<stdout, misuse, kedroVars, filterVars, ormVars, liveVars>>

\* line 79: Session().__enter__()
OrmSession ==
    /\ entry = "orm" /\ pc = "o_session"
    /\ UNCHANGED entry
    /\ session' = "open"
    /\ Goto("o_user")
    /\ UNCHANGED <<stdout, misuse, kedroVars, filterVars, liveVars>>
    /\ UNCHANGED <<input, user, comments, pending, userRows, commentRows,
                   bare_result, tweaked_result>>

\* line 81: user = User(name=...)
OrmUser ==
    /\ entry = "orm" /\ pc = "o_user"
    /\ UNCHANGED entry
    /\ user' = UserNew(input.name)
    /\ Goto(IF Len(input.texts) = 0 THEN "o_add" ELSE "o_comment")
    /\ UNCHANGED <<stdout, misuse, kedroVars, filterVars, liveVars>>
    /\ UNCHANGED <<input, session, comments, pending, userRows, commentRows,
                   bare_result, tweaked_result>>

\* lines 82-83: the next Comment(comment=..., user=user)
OrmComment ==
    /\ entry = "orm" /\ pc = "o_comment"
    /\ UNCHANGED entry
    /\ LET i == Len(comments) + 1
           c == CommentNew(input.texts[i], "user")
       IN  /\ comments' = Append(comments, c)
           /\ user' = BackPopulate(user, c, i)
           /\ Goto(IF i = Len(input.texts) THEN "o_add" ELSE "o_comment")
    /\ UNCHANGED <<stdout, misuse, kedroVars, filterVars, liveVars>>
    /\ UNCHANGED <<input, session, pending, userRows, commentRows,
                   bare_result, tweaked_result>>

\* line 85: session.add(user)
OrmAdd ==
    /\ entry = "orm" /\ pc = "o_add"
    /\ UNCHANGED entry
    /\ UsesSession
    /\ pending' = pending \cup AddCascade(user)
    /\ Goto("o_commit")
    /\ UNCHANGED <<stdout, kedroVars, filterVars, liveVars>>
    /\ UNCHANGED <<input, session, user, comments, userRows, commentRows,
                   bare_result, tweaked_result>>

\* line 86: session.commit(): the flush inserts the user, then the pending
\* comments, in one transaction; a failure rolls it back
OrmCommit ==
    /\ entry = "orm" /\ pc = "o_commit"
    /\ UNCHANGED entry
    /\ UsesSession
    /\ \/ LET uid == NextId(userRows)
              cs == FlushComments(comments, pending, uid, 1)
              new == {i \in DOMAIN cs : <<"comment", i>> \in pending}
          IN  /\ <<"user", 0>> \in pending
              /\ user' = [user EXCEPT !.id = uid]
              /\ comments' = cs
              /\ userRows' = Append(userRows, [id |-> uid, name |-> user.name])
              /\ commentRows' = commentRows \o
                    [k \in 1..Cardinality(new) |->
                        CommentRow(cs[CHOOSE i \in new : cs[i].id = k])]
              /\ pending' = {}
              /\ Goto("o_bare")
       \/ /\ Raise("SQLAlchemyError", OrmHandler)
          /\ pending' = {}
          /\ UNCHANGED <<user, comments, userRows, commentRows>>
    /\ UNCHANGED <<stdout, kedroVars, filterVars, liveVars>>
    /\ UNCHANGED <<input, session, bare_result, tweaked_result>>

\* lines 88-89: bare_result = UserSerializer.from_orm(user).dict()
OrmBare ==
    /\ entry = "orm" /\ pc = "o_bare"
    /\ UNCHANGED entry
    /\ UsesSession
    /\ \/ /\ ValidUser(user, comments)
          /\ bare_result' = UserSerializer(user, comments)
          /\ Goto("o_tweaked")
       \/ /\ Raise(IF ValidUser(user, comments) THEN "SQLAlchemyError"
                   ELSE "ValidationError", OrmHandler)
          /\ UNCHANGED bare_result
    /\ UNCHANGED <<stdout, kedroVars, filterVars, liveVars>>
    /\ UNCHANGED <<input, session, user, comments, pending, userRows,
                   commentRows, tweaked_result>>

\* line 90: tweaked_result = UserWithoutIDSerializer.from_orm(user).dict()
OrmTweaked ==
    /\ entry = "orm" /\ pc = "o_tweaked"
    /\ UNCHANGED entry
    /\ UsesSession
    /\ \/ /\ tweaked_result' = UserWithoutIDSerializer(user, comments)
          /\ Goto("o_print")
       \/ /\ Raise("SQLAlchemyError", OrmHandler)
          /\ UNCHANGED tweaked_result
    /\ UNCHANGED <<stdout, kedroVars, filterVars, liveVars>>
    /\ UNCHANGED <<input, session, user, comments, pending, userRows,
                   commentRows, bare_result>>

\* lines 92-93: the two prints, one per step
OrmPrint ==
    /\ entry = "orm" /\ pc = "o_print"
    /\ UNCHANGED entry
    /\ stdout' = Append(stdout, IF Len(stdout) = 0
                                THEN <<"bare_result", bare_result>>
                                ELSE <<"tweaked_result", tweaked_result>>)
    /\ Goto(IF Len(stdout) = 0 THEN "o_print" ELSE "o_exit")
    /\ UNCHANGED <<misuse, kedroVars, filterVars, ormVars, liveVars>>

\* line 79: Session.__exit__: the session is closed, then the exception in
\* flight, if any, goes on
OrmExit ==
    /\ entry = "orm" /\ pc = "o_exit"
    /\ UNCHANGED entry
    /\ session' = "closed"
    /\ pending' = {}
    /\ pc' = AfterWith
    /\ UNCHANGED <<exc, outAtFault, stdout, misuse, kedroVars, filterVars, liveVars>>
    /\ UNCHANGED <<input, user, comments, userRows, commentRows,
                   bare_result, tweaked_result>>

-----------------------------------------------------------------------------
(* live_reload.py *)

\* "*.md", "posts/*.md", "*.py", "_static/*", "_templates/*"
PatMd == <<"*",".","m","d">>
PatPostsMd == <<"p","o","s","t","s","/","*",".","m","d">>
PatPy == <<"*",".","p","y">>
PatStatic == <<"_","s","t","a","t","i","c","/","*">>
PatTemplates == <<"_","t","e","m","p","l","a","t","e","s","/","*">>

\* "docs/"
DocsRoot == <<"d","o","c","s","/">>
NoRoot == << >>

\* the command of shell("ablog build")
AblogBuild == "ablog build"

Watch(p) == [pattern |-> p, func |-> AblogBuild, delay |-> 1]

\* lines 6-10 with the watch of "*.py" left out
WatchCallsWithoutPy ==
    <<Watch(PatMd), Watch(PatPostsMd), Watch(PatStatic), Watch(PatTemplates)>>

\* lines 6-10 with "**.md" style patterns that also match below directories
WatchCallsOverlapping ==
    <<Watch(PatMd), Watch(<<"*","/","*",".","m","d">>), Watch(PatPostsMd),
      Watch(PatPy), Watch(PatStatic), Watch(PatTemplates)>>

\* lines 6-10: the five calls of server.watch, in order
WatchCalls ==
    <<Watch(PatMd), Watch(PatPostsMd), Watch(PatPy), Watch(PatStatic),
      Watch(PatTemplates)>>

\* the files of the working directory that change in the model
SourceFiles ==
    { <<"a",".","m","d">>,
      <<"p","o","s","t","s","/","b",".","m","d">>,
      <<"c",".","p","y">>,
      <<"_","s","t","a","t","i","c","/","d">>,
      <<"_","t","e","m","p","l","a","t","e","s","/","e">>,
      <<"p","o","s","t","s","/","f",".","p","y">> }

\* what a build writes: files below docs/
BuildOutputs ==
    { <<"d","o","c","s","/","a",".","h","t","m","l">>,
      <<"d","o","c","s","/","_","s","t","a","t","i","c","/","d">>,
      <<"d","o","c","s","/","_","s","o","u","r","c","e","s","/","a",".","m","d">> }

Files == SourceFiles \cup BuildOutputs

\* the files a run of the command writes
Writes(cmd) == IF cmd = AblogBuild THEN BuildOutputs ELSE {}

RECURSIVE SplitFrom(_, _, _)
\* the parts of s from position i on, cut at "/", cur being the part so far
SplitFrom(s, i, cur) ==
    IF i > Len(s) THEN <<cur>>
    ELSE IF s[i] = "/" THEN <<cur>> \o SplitFrom(s, i + 1, << >>)
         ELSE SplitFrom(s, i + 1, Append(cur, s[i]))

\* s.split("/")
Split(s) == SplitFrom(s, 1, << >>)

RECURSIVE FnMatchFrom(_, _, _, _)
\* fnmatch of one name against one pattern: "*" stands for any run of
\* characters, every other character for itself
FnMatchFrom(p, i, s, j) ==
    IF i > Len(p) THEN j > Len(s)
    ELSE IF p[i] = "*"
         THEN FnMatchFrom(p, i + 1, s, j) \/ (j <= Len(s) /\ FnMatchFrom(p, i, s, j + 1))
         ELSE j <= Len(s) /\ p[i] = s[j] /\ FnMatchFrom(p, i + 1, s, j + 1)

\* one path component against one pattern component: a name that starts
\* with "." is matched only by a pattern that starts with "."
SegMatch(p, s) ==
    /\ s # << >>
    /\ (s[1] = "." => (p # << >> /\ p[1] = "."))
    /\ FnMatchFrom(p, 1, s, 1)

\* glob.glob(pattern) lists path: component by component, "*" never
\* standing for a "/"
Glob(pattern, path) ==
    LET ps == Split(pattern)
        fs == Split(path)
    IN  /\ Len(ps) = Len(fs)
        /\ \A k \in DOMAIN ps : SegMatch(ps[k], fs[k])

\* path lies below the directory dir ("docs/")
Below(path, dir) ==
    /\ dir # << >>
    /\ Len(path) > Len(dir)
    /\ SubSeq(path, 1, Len(dir)) = dir

\* glob.glob(p) for each watched pattern p: the files of the model it lists
Listing ==
    [p \in {WatchCalls[i].pattern : i \in DOMAIN WatchCalls} |->
        {f \in Files : Glob(p, f)}]

RECURSIVE ExamineFrom(_, _, _, _)
\* One look of the watcher at the tasks from the i-th on, in order: a task
\* one of whose files changed runs its command and notes that file.  The
\* outcomes differ by the file each task finds first.
ExamineFrom(ts, i, chg, log) ==
    IF i > Len(ts) THEN {[changed |-> chg, log |-> log]}
    ELSE LET hit == chg \cap Listing[ts[i].pattern]
         IN  IF hit = {} THEN ExamineFrom(ts, i + 1, chg, log)
             ELSE UNION {ExamineFrom(ts, i + 1,
                                     (chg \ {f}) \cup Writes(ts[i].func),
                                     Append(log, [cmd |-> ts[i].func, file |-> f]))
                         : f \in hit}

\* line 5: server = Server()
LiveNew ==
    /\ entry = "live" /\ pc = "l_new"
    /\ UNCHANGED entry
    /\ Goto("l_watch")
    /\ UNCHANGED <<stdout, misuse, kedroVars, filterVars, ormVars, liveVars>>

\* lines 6-10: the next call of server.watch
LiveWatch ==
    /\ entry = "live" /\ pc = "l_watch"
    /\ UNCHANGED entry
    /\ Len(tasks) < Len(WatchCalls)
    /\ tasks' = Append(tasks, WatchCalls[Len(tasks) + 1])
    /\ Goto(IF Len(tasks') = Len(WatchCalls) THEN "l_serve" ELSE "l_watch")
    /\ UNCHANGED <<stdout, misuse, kedroVars, filterVars, ormVars>>
    /\ UNCHANGED <<root, changed, nChanges, buildLog>>

\* server.serve returning as soon as the server is set up
LiveServeReturns ==
    /\ entry = "live" /\ pc = "l_serve"
    /\ UNCHANGED entry
    /\ root' = DocsRoot
    /\ Goto("done")
    /\ UNCHANGED <<stdout, misuse, kedroVars, filterVars, ormVars>>
    /\ UNCHANGED <<tasks, changed, nChanges, buildLog>>

\* line 11: server.serve(root="docs/"): the call starts serving and stays in
\* the serving loop; it is the last statement of the script
LiveServe ==
    /\ entry = "live" /\ pc = "l_serve"
    /\ UNCHANGED entry
    /\ \/ /\ root' = DocsRoot
          /\ Goto("l_serving")
       \/ /\ Raise("OSError", "failed")
          /\ UNCHANGED root
    /\ UNCHANGED <<stdout, misuse, kedroVars, filterVars, ormVars>>
    /\ UNCHANGED <<tasks, changed, nChanges, buildLog>>

\* the watcher's periodic look at its tasks while the server serves
Poll ==
    /\ entry = "live" /\ pc = "l_serving"
    /\ UNCHANGED entry
    /\ \E r \in ExamineFrom(tasks, 1, changed, buildLog) :
          /\ changed' = r.changed
          /\ buildLog' = r.log
    /\ UNCHANGED <<pc, exc, outAtFault, stdout, misuse, kedroVars, filterVars, ormVars>>
    /\ UNCHANGED <<tasks, root, nChanges>>

\* the environment modifies a file of the working directory
FileChange ==
    /\ entry = "live" /\ pc \in {"l_watch", "l_serve", "l_serving"}
    /\ UNCHANGED entry
    /\ nChanges < MaxChanges
    /\ \E f \in Files : changed' = changed \cup {f}
    /\ nChanges' = nChanges + 1
    /\ UNCHANGED <<pc, exc, outAtFault, stdout, misuse, kedroVars, filterVars, ormVars>>
    /\ UNCHANGED <<tasks, root, buildLog>>

-----------------------------------------------------------------------------
(* The specification *)

Entries == {"kedro", "orm", "live", "filter"}

\* where each entry point starts
Start(e) ==
    CASE e = "kedro" -> "k_enter"
      [] e = "orm" -> "o_engine"
      [] e = "live" -> "l_new"
      [] e = "filter" -> "f_call"

Init ==
    /\ entry \in Entries
    /\ pc = Start(entry)
    /\ exc = NoExc
    /\ stdout = << >>
    /\ outAtFault = -1
    /\ tmpdir = "none"
    /\ files = EmptyDict
    /\ loaded_partitioned_dataset \in
          IF entry = "filter" THEN HarnessMappings ELSE {<< >>}
    /\ idx = 1
    /\ calls = << >>
    /\ misuse = FALSE
    /\ filterArg \in IF entry = "filter" THEN HarnessKeys ELSE {<< >>}
    /\ ret = NoRet
    /\ input \in IF entry = "orm" THEN OrmInputs ELSE {ScriptInput}
    /\ session = "none"
    /\ user = NoUser
    /\ comments = << >>
    /\ pending = {}
    /\ userRows = << >>
    /\ commentRows = << >>
    /\ bare_result = EmptyDict
    /\ tweaked_result = EmptyDict
    /\ tasks = << >>
    /\ root = NoRoot
    /\ changed = {}
    /\ nChanges = 0
    /\ buildLog = << >>

\* the steps of the scripts themselves
ScriptStep ==
    \/ KedroEnter \/ KedroNew \/ KedroSave \/ KedroRelease \/ KedroLoad
    \/ KedroLookup \/ KedroExit
    \/ CallFilter
    \/ OrmEngine \/ OrmSession \/ OrmUser \/ OrmComment \/ OrmAdd
    \/ OrmCommit \/ OrmBare \/ OrmTweaked \/ OrmPrint \/ OrmExit
    \/ LiveNew \/ LiveWatch \/ LiveServe

Next == ScriptStep \/ Poll \/ FileChange

Spec == Init /\ [][Next]_vars

\* The interpreter runs a script's next statement, and the serving loop
\* looks at its tasks again and again; nothing makes the environment act.
FairSpec == Spec /\ WF_vars(ScriptStep) /\ WF_vars(Poll)

Terminated == pc \in {"done", "failed"}

-----------------------------------------------------------------------------
(* Properties of filter_datasets *)

\* the positions of the mapping whose key is, character for character, the filter
Hits ==
    {i \in DOMAIN loaded_partitioned_dataset :
        loaded_partitioned_dataset[i].key = filterArg}

\* C1: for every mapping and every filter, filter_datasets returns the value
\* produced by the load function stored under the key equal to the filter
\* (its error, when that function raises), and returns the empty mapping when
\* no key equals the filter; keys that differ only in case are not equal.
C1_FilterReturnsMatch ==
    (entry = "filter" /\ Terminated) =>
        IF Hits = {}
        THEN ret.kind = "return" /\ ret.value = EmptyDict
        ELSE \A i \in Hits :
                IF loaded_partitioned_dataset[i].fails
                THEN ret.kind = "raise"
                ELSE /\ ret.kind = "return"
                     /\ ret.value = loaded_partitioned_dataset[i].payload

\* a call on a mapping with the keys "A" and "a" returned the payload of "a"
C1_Witness ==
    /\ entry = "filter" /\ pc = "done"
    /\ filterArg = <<"a">>
    /\ \E i, j \in DOMAIN loaded_partitioned_dataset :
          /\ loaded_partitioned_dataset[i].key = <<"A">>
          /\ loaded_partitioned_dataset[j].key = <<"a">>
          /\ i < j
          /\ loaded_partitioned_dataset[i].payload # loaded_partitioned_dataset[j].payload
          /\ ret.value = loaded_partitioned_dataset[j].payload

\* C9: filter_datasets invokes the load function under the matching key and
\* no other (none when no key matches), and leaves the mapping as it was.
C9_LazyAndFrame ==
    [][(entry = "filter" /\ pc = "f_call" /\ pc' # pc) =>
          /\ loaded_partitioned_dataset' = loaded_partitioned_dataset
          /\ calls' = IF Hits = {} THEN << >> ELSE <<filterArg>>
          /\ Len(calls') <= 1]_vars

\* a call on a mapping of two keys invoked the second load function only
C9_Witness ==
    /\ entry = "filter" /\ Terminated
    /\ Len(loaded_partitioned_dataset) = 2
    /\ loaded_partitioned_dataset[2].key = filterArg
    /\ calls = <<loaded_partitioned_dataset[2].key>>

-----------------------------------------------------------------------------
(* Properties of the partitioned-dataset demo *)

\* what the demo is to print for each first name, in the order of the lookups
ExpectedAnswers ==
    << [who |-> <<"F","l","o","r","i","a","n">>, is |-> "He is the boss!"],
       [who |-> <<"J","u","l","i","e","n">>,
        is |-> "He is my boss...Oh, wait, no it's Aymeric now!"],
       [who |-> <<"F","l","a","v","i","e","n">>, is |-> "I am the boss...of JIRA!"] >>

\* C8: the three saves accumulate: the loaded mapping has exactly the keys
\* florian, flavien and julien, and the lookups for Florian, Julien and
\* Flavien, in that order, each print the stored text of that partition,
\* never None.
C8_SavesAccumulate ==
    entry = "kedro" =>
        /\ (pc = "k_loop" =>
              {loaded_partitioned_dataset[i].key : i \in DOMAIN loaded_partitioned_dataset} =
                 { <<"f","l","o","r","i","a","n">>,
                   <<"f","l","a","v","i","e","n">>,
                   <<"j","u","l","i","e","n">> })
        /\ Len(stdout) <= Len(ExpectedAnswers)
        /\ \A i \in DOMAIN stdout : stdout[i] = ExpectedAnswers[i]
        /\ (pc = "done" => Len(stdout) = Len(ExpectedAnswers))

\* the demo ran to its end and printed the three answers
C8_Witness ==
    /\ entry = "kedro" /\ pc = "done"
    /\ stdout = ExpectedAnswers
    /\ Len(calls) = 3

-----------------------------------------------------------------------------
(* Properties of the resources and of failures *)

\* C4: when the partitioned-dataset demo or the ORM demo has ended, by
\* whatever path, the temporary directory is removed and the session is
\* closed, and no step used either while it was not open.
C4_ResourcesReleased ==
    /\ ~misuse
    /\ (entry = "kedro" /\ Terminated) => (tmpdir # "open" /\ files = EmptyDict)
    /\ (entry = "orm" /\ Terminated) => session # "open"
    /\ (entry = "kedro" /\ tmpdir = "removed") => pc \in {"done", "failed"}
    /\ (entry = "orm" /\ session = "closed") => pc \in {"done", "failed"}

\* the demo ended with an exception raised by a lookup, the directory removed
C4_Witness ==
    /\ entry = "kedro" /\ pc = "failed"
    /\ exc = "LoadError"
    /\ Len(stdout) = 1
    /\ tmpdir = "removed"

\* the partition a printed line or a call is about has a load function that raises
FailingKey(k) ==
    \E i \in DOMAIN loaded_partitioned_dataset :
        loaded_partitioned_dataset[i].key = k /\ loaded_partitioned_dataset[i].fails

\* an exception ends the script: only the exit of the with statement runs
\* after it, nothing is printed after it, and the script does not end well
ExceptionsPropagate ==
    /\ exc # NoExc => /\ pc \in {"k_exit", "o_exit", "failed"}
                      /\ Len(stdout) = outAtFault
    /\ (entry = "kedro" /\ pc \in {"k_loop", "k_exit", "done", "failed"}) =>
          \A i \in DOMAIN stdout : ~FailingKey(Lower(stdout[i].who))
    /\ (entry = "filter" /\ Terminated /\ FailingKey(filterArg)) =>
          (pc = "failed" /\ ret.kind = "raise" /\ exc = "LoadError")

\* C5 as amended: every exception raised during a run (by a partition load
\* function, the database, the file system) propagates uncaught and ends the
\* script with no later step run; a key that is missing is not such a
\* failure: filter_datasets returns the empty mapping and ends normally.
C5_FailuresPropagate ==
    /\ ExceptionsPropagate
    /\ (entry = "filter" /\ Terminated /\ Hits = {}) =>
          (pc = "done" /\ exc = NoExc /\ ret.value = EmptyDict)

\* C5 as stated: a missing key is a failure like the others: it propagates
\* and ends the script, no default standing in for the value.
C5_MissingKeyFails ==
    /\ ExceptionsPropagate
    /\ (entry = "filter" /\ Terminated /\ Hits = {}) =>
          (pc = "failed" /\ exc # NoExc)

\* a lookup whose load function raised ended the demo after one printed line
C5_Witness ==
    /\ entry = "kedro" /\ pc = "failed"
    /\ exc = "LoadError"
    /\ outAtFault = 1
    /\ Len(calls) = 2
    /\ FailingKey(Lower(FirstNames[2]))

-----------------------------------------------------------------------------
(* Properties of the ORM demo *)

\* both projections of the user have been computed
BothResults == entry = "orm" /\ (pc = "o_print" \/ Len(stdout) > 0)

\* the Comment object at position i of user.comments
CommentOf(i) == comments[user.comments[i]]

\* C6: for every persisted user and every list of comments, UserSerializer
\* yields the id, the name and one mapping {id, comment, user_id} per
\* comment; UserWithoutIDSerializer yields the name and one plain text per
\* comment and no id; both list the comments in the order and number of
\* user.comments.
C6_Projections ==
    BothResults =>
        /\ user.id # NoId
        /\ DOMAIN bare_result = {"id", "name", "comments"}
        /\ bare_result.id = user.id
        /\ bare_result.name = input.name
        /\ DOMAIN bare_result.comments = DOMAIN user.comments
        /\ \A i \in DOMAIN user.comments :
              /\ DOMAIN bare_result.comments[i] = {"id", "comment", "user_id"}
              /\ bare_result.comments[i].id = CommentOf(i).id
              /\ bare_result.comments[i].comment = CommentOf(i).comment
              /\ bare_result.comments[i].user_id = CommentOf(i).user_id
        /\ DOMAIN tweaked_result = {"name", "comments"}
        /\ tweaked_result.name = input.name
        /\ DOMAIN tweaked_result.comments = DOMAIN user.comments
        /\ \A i \in DOMAIN user.comments :
              tweaked_result.comments[i] = CommentOf(i).comment
        /\ tweaked_result.comments = input.texts

\* the two projections of a user with two comments were printed
C6_Witness ==
    /\ entry = "orm" /\ pc = "done"
    /\ Len(stdout) = 2
    /\ Len(user.comments) = 2
    /\ tweaked_result = [name |-> "Alice",
                         comments |-> <<"First comment.", "Second comment.">>]
    /\ bare_result.comments[2] =
          [id |-> 2, comment |-> "Second comment.", user_id |-> 1]

\* the commit of line 86 has succeeded
Committed == entry = "orm" /\ userRows # << >>

\* C7: after session.add(user) and the commit, every Comment constructed
\* with user=user is a row of the comment table although only the user was
\* added, its user_id is the id of the user, and user.comments holds exactly
\* those comments; at no time does a comment row refer to a user id that is
\* not a row of the user table.
C7_ReferentialIntegrity ==
    /\ \A k \in DOMAIN commentRows :
          \E u \in DOMAIN userRows : userRows[u].id = commentRows[k].user_id
    /\ Committed =>
          /\ user.id # NoId
          /\ \E u \in DOMAIN userRows : userRows[u] = [id |-> user.id, name |-> input.name]
          /\ Len(comments) = Len(input.texts)
          /\ Len(commentRows) = Len(comments)
          /\ user.comments = [i \in DOMAIN comments |-> i]
          /\ \A i \in DOMAIN comments :
                /\ comments[i].id # NoId
                /\ comments[i].user_id = user.id
                /\ \E k \in DOMAIN commentRows :
                      commentRows[k] = [id |-> comments[i].id,
                                        comment |-> input.texts[i],
                                        user_id |-> user.id]

\* a user with two comments was committed
C7_Witness ==
    /\ Committed
    /\ pc = "o_bare"
    /\ Len(commentRows) = 2
    /\ commentRows[1].user_id = 1 /\ commentRows[2].user_id = 1
    /\ commentRows[1].id # commentRows[2].id

-----------------------------------------------------------------------------
(* Properties of the live-reload launcher *)

\* the files of the model that match one of "*.md", "posts/*.md", "*.py",
\* "_static/*", "_templates/*"
WatchedFiles ==
    { <<"a",".","m","d">>,
      <<"p","o","s","t","s","/","b",".","m","d">>,
      <<"c",".","p","y">>,
      <<"_","s","t","a","t","i","c","/","d">>,
      <<"_","t","e","m","p","l","a","t","e","s","/","e">> }

\* the entries a step adds to the log of the commands run
NewBuilds == {buildLog'[k] : k \in (Len(buildLog) + 1)..Len(buildLog')}

\* C2: while the launcher is serving, every change to a file matching one of
\* the five watched patterns is eventually followed by a run of
\* "ablog build" for it, and a change to a file matching none of them never
\* starts a build.
C2_ChangeLeadsToBuild ==
    /\ \A f \in WatchedFiles :
          (pc = "l_serving" /\ f \in changed) ~> (f \notin changed)
    /\ [][\A f \in WatchedFiles :
             (f \in changed /\ f \notin changed') =>
                [cmd |-> "ablog build", file |-> f] \in NewBuilds]_vars
    /\ [][\A b \in NewBuilds :
             b.file \in WatchedFiles /\ b.file \in changed]_vars

\* the launcher is serving and has rebuilt after a change of c.py and of
\* posts/b.md, a change of posts/f.py having started nothing
C2_Witness ==
    /\ entry = "live" /\ pc = "l_serving"
    /\ Len(buildLog) = 1
    /\ buildLog[1] = [cmd |-> "ablog build", file |-> <<"c",".","p","y">>]
    /\ nChanges = 2
    /\ <<"p","o","s","t","s","/","f",".","p","y">> \in changed

\* the five watches as the launcher is to register them
FiveWatches ==
    << [pattern |-> <<"*",".","m","d">>, func |-> "ablog build", delay |-> 1],
       [pattern |-> <<"p","o","s","t","s","/","*",".","m","d">>,
        func |-> "ablog build", delay |-> 1],
       [pattern |-> <<"*",".","p","y">>, func |-> "ablog build", delay |-> 1],
       [pattern |-> <<"_","s","t","a","t","i","c","/","*">>,
        func |-> "ablog build", delay |-> 1],
       [pattern |-> <<"_","t","e","m","p","l","a","t","e","s","/","*">>,
        func |-> "ablog build", delay |-> 1] >>

\* path components: a.md, c.py, d, posts, _static, _templates, docs, .h.md
Components ==
    { <<"a",".","m","d">>, <<"c",".","p","y">>, <<"d">>,
      <<"p","o","s","t","s">>, <<"_","s","t","a","t","i","c">>,
      <<"_","t","e","m","p","l","a","t","e","s">>, <<"d","o","c","s">>,
      <<".","h",".","m","d">> }

\* every path of one, two or three of these components
PathUniverse ==
    Components
    \cup {x \o <<"/">> \o y : x, y \in Components}
    \cup {x \o <<"/">> \o y \o <<"/">> \o z : x, y, z \in Components}

\* the patterns among the five that match the path f
Matching(f) == {i \in DOMAIN FiveWatches : Glob(FiveWatches[i].pattern, f)}

\* over all these paths no two of the five patterns match the same path and
\* none matches a path below docs/
FivePatternsDisjoint ==
    \A f \in PathUniverse :
        /\ Cardinality(Matching(f)) <= 1
        /\ Below(f, <<"d","o","c","s","/">>) => Matching(f) = {}

\* the watches registered whose pattern matches f
Watching(f) == {i \in DOMAIN tasks : Glob(tasks[i].pattern, f)}

\* C10: the five watches, each bound to "ablog build" with delay 1, are all
\* registered before docs/ is served; no file matches two of the patterns;
\* no file below docs/ matches any; and the builds run never outnumber the
\* changes made: a change is followed by at most one build and a build by
\* none.
C10_NoRebuildLoop ==
    entry = "live" =>
        /\ root # NoRoot => (tasks = FiveWatches /\ root = <<"d","o","c","s","/">>)
        /\ pc = "l_serving" => root # NoRoot
        /\ \A f \in Files : Cardinality(Watching(f)) <= 1
        /\ \A f \in Files : Below(f, <<"d","o","c","s","/">>) => Watching(f) = {}
        /\ FivePatternsDisjoint
        /\ Len(buildLog) <= nChanges

\* two changes, of a.md and of _static/d, were each followed by one build,
\* and the files the builds wrote below docs/ were followed by none
C10_Witness ==
    /\ entry = "live" /\ pc = "l_serving"
    /\ nChanges = 2
    /\ Len(buildLog) = 2
    /\ {buildLog[1].file, buildLog[2].file} =
          {<<"a",".","m","d">>, <<"_","s","t","a","t","i","c","/","d">>}
    /\ changed = BuildOutputs

\* C3 as stated: every script runs start to finish and eventually exits.
C3_EveryScriptExits == <>Terminated

\* C3 as amended: the partitioned-dataset demo and the ORM demo (and a call
\* of filter_datasets) run start to finish and exit; the live-reload
\* launcher registers its watches and then serves: unless server.serve
\* fails at once, it reaches the serving loop and never leaves it by itself.
C3_DemosExitLauncherServes ==
    /\ (entry # "live") => <>Terminated
    /\ (entry = "live") => <>(pc \in {"l_serving", "failed"})
    /\ [][pc = "l_serving" => pc' = "l_serving"]_vars
    /\ [](pc = "done" => entry # "live")

\* the launcher is in its serving loop with nothing left to do but wait
C3_Witness ==
    /\ entry = "live" /\ pc = "l_serving"
    /\ buildLog # << >>
    /\ changed \cap WatchedFiles = {}
    /\ ~ENABLED ScriptStep

====
